---- MODULE Spec2Model ----
(***************************************************************************)
(* A model of tdameritrade/optionChain.go: the option-chain query          *)
(* validator, the request builder and the JSON normalisation of an option  *)
(* chain response (naNFloat, OptionData and OptionChain UnmarshalJSON).     *)
(*                                                                         *)
(* Representation.                                                         *)
(*  - A Go string that the code takes apart (a composite expiration key)    *)
(*    is a sequence of one-character strings.  Other strings are TLA+       *)
(*    strings.                                                             *)
(*  - A JSON scalar token is the TLA+ string of its raw bytes, so the JSON  *)
(*    string NaN is the five bytes "\"NaN\"" and the number 0.5 is "0.5".   *)
(*  - A float64 is a record [nan, v]: v is the value in hundredths, nan     *)
(*    says that the value is the IEEE NaN.                                 *)
(*  - A JSON object is a function from its member names to their values;    *)
(*    a Go map is a function too, and each range over it takes an order     *)
(*    the runtime chooses.                                                 *)
(***************************************************************************)
EXTENDS Integers, Sequences, FiniteSets, TLC

VARIABLES pc, args, ret, opts, chain, sent

vars == <<pc, args, ret, opts, chain, sent>>

(***************************************************************************)
(* Bounds of the model.                                                    *)
(***************************************************************************)
\* Most composite keys in one callExpDateMap / putExpDateMap.
MaxKeys == 2
\* Most strike entries under one composite key.
MaxStrikes == 3
\* Most option records in the list wrapped around one strike entry.
MaxList == 2

(***************************************************************************)
(* Sequences and sets.                                                     *)
(***************************************************************************)
Range(s) == {s[i] : i \in DOMAIN s}

\* The orders in which a range over a Go map with key set S may visit it.
Perms(S) == {s \in [1..Cardinality(S) -> S] : \A i, j \in DOMAIN s : i # j => s[i] # s[j]}

swap(s, i, j) == [s EXCEPT ![i] = s[j], ![j] = s[i]]

(***************************************************************************)
(* The enumerations and defaults of the query (lines 16-30).               *)
(***************************************************************************)
validContractTypes == <<"CALL", "PUT", "ALL">>
validStrategies == <<"SINGLE", "ANALYTICAL", "COVERED", "VERTICAL", "CALENDAR", "STRANGLE",
                     "STRADDLE", "BUTTERFLY", "CONDOR", "DIAGONAL", "COLLAR", "ROLL">>
validRanges == <<"ITM", "NTM", "OTM", "SAK", "SBK", "SNK", "ALL">>
validExpMonths == <<"JAN", "FEB", "MAR", "APR", "MAY", "JUN", "JUL", "AUG", "SEP", "OCT",
                    "NOV", "DEC", "ALL">>
validOptionTypes == <<"S", "NS", "ALL">>

defaultContractType == "ALL"
defaultStrategy == "SINGLE"
defaultRange == "ALL"
defaultExpMonth == "ALL"
defaultOptionType == "ALL"

(***************************************************************************)
(* Library functions the decoder calls, computed as the library computes   *)
(* them on the strings of the model.                                       *)
(***************************************************************************)
DigitVal == ("0" :> 0) @@ ("1" :> 1) @@ ("2" :> 2) @@ ("3" :> 3) @@ ("4" :> 4) @@
            ("5" :> 5) @@ ("6" :> 6) @@ ("7" :> 7) @@ ("8" :> 8) @@ ("9" :> 9)

isDigit(s, i) == i <= Len(s) /\ s[i] \in DOMAIN DigitVal

\* strings.Split(s, sep) for a one-character separator: the pieces between
\* the separators, one more piece than there are separators.
RECURSIVE SplitFrom(_, _, _, _)
SplitFrom(s, sep, i, cur) ==
    IF i > Len(s) THEN <<cur>>
    ELSE IF s[i] = sep THEN <<cur>> \o SplitFrom(s, sep, i + 1, <<>>)
    ELSE SplitFrom(s, sep, i + 1, Append(cur, s[i]))

Split(s, sep) == SplitFrom(s, sep, 1, <<>>)

\* strconv.Atoi on a string shorter than 19 bytes: an optional sign, then
\* one or more decimal digits and nothing else.  [ok, v]; v is 0 on failure.
RECURSIVE digitsValue(_, _, _)
digitsValue(s, i, n) ==
    IF i > Len(s) THEN n ELSE digitsValue(s, i + 1, n * 10 + DigitVal[s[i]])

Atoi(s) ==
    LET signed == Len(s) > 0 /\ s[1] \in {"-", "+"}
        body == IF signed THEN Tail(s) ELSE s
    IN  IF Len(body) < 1 \/ \E i \in DOMAIN body : ~isDigit(body, i)
        THEN [ok |-> FALSE, v |-> 0]
        ELSE [ok |-> TRUE,
              v |-> IF s[1] = "-" THEN 0 - digitsValue(body, 1, 0)
                    ELSE digitsValue(body, 1, 0)]

isLeap(year) == year % 4 = 0 /\ (year % 100 # 0 \/ year % 400 = 0)

daysIn(m, year) ==
    IF m = 2 THEN (IF isLeap(year) THEN 29 ELSE 28)
    ELSE IF m \in {4, 6, 9, 11} THEN 30 ELSE 31

\* The zero time.Time: January 1 of year 1.
zeroTime == [year |-> 1, month |-> 1, day |-> 1]

\* time.Parse("2006-01-02", value): four digits, '-', two digits, '-', two
\* digits and nothing after them; the month in 1..12 and the day in the
\* month.  [ok, t]; t is the zero time on failure.
timeParse(value) ==
    LET wellFormed ==
            /\ Len(value) = 10
            /\ \A i \in {1, 2, 3, 4, 6, 7, 9, 10} : isDigit(value, i)
            /\ value[5] = "-"
            /\ value[8] = "-"
        year == digitsValue(SubSeq(value, 1, 4), 1, 0)
        month == digitsValue(SubSeq(value, 6, 7), 1, 0)
        day == digitsValue(SubSeq(value, 9, 10), 1, 0)
    IN  IF wellFormed /\ month \in 1..12 /\ day >= 1 /\ day <= daysIn(month, year)
        THEN [ok |-> TRUE, t |-> [year |-> year, month |-> month, day |-> day]]
        ELSE [ok |-> FALSE, t |-> zeroTime]

(***************************************************************************)
(* float64 values and JSON number tokens.                                  *)
(***************************************************************************)
Float(v) == [nan |-> FALSE, v |-> v]
NaN == [nan |-> TRUE, v |-> 0]

\* IEEE less-than: false when either side is NaN.
floatLess(a, b) == ~a.nan /\ ~b.nan /\ a.v < b.v

\* The JSON number tokens of the model with their values in hundredths.
NumberTokens == ("0" :> 0) @@ ("0.5" :> 50) @@ ("-0.25" :> -25) @@ ("1e2" :> 10000) @@
                ("50" :> 5000) @@ ("90.0" :> 9000) @@ ("95.0" :> 9500) @@
                ("100.0" :> 10000) @@ ("100" :> 10000)

\* strconv.ParseFloat(s, 64) on the raw bytes of a JSON token: a number
\* token gives its value; a quoted string, null, true or false is a syntax
\* error.  [ok, f].
ParseFloat(s) ==
    IF s \in DOMAIN NumberTokens THEN [ok |-> TRUE, f |-> Float(NumberTokens[s])]
    ELSE [ok |-> FALSE, f |-> Float(0)]

\* sort.Slice on a slice shorter than 12 elements is an insertion sort:
\* each element in turn moves left while it is less than its left
\* neighbour.  The elements are sorted as <<sort key, element>> pairs and
\* the comparison of the caller's closure is applied to the sort keys.
RECURSIVE sinkLeft(_, _)
sinkLeft(s, j) ==
    IF j > 1 /\ floatLess(s[j][1], s[j - 1][1]) THEN sinkLeft(swap(s, j, j - 1), j - 1)
    ELSE s

RECURSIVE insertionSortFrom(_, _)
insertionSortFrom(s, i) ==
    IF i > Len(s) THEN s ELSE insertionSortFrom(sinkLeft(s, i), i + 1)

unpair(sorted) == [i \in DOMAIN sorted |-> sorted[i][2]]

sortSlice(s, key(_)) ==
    unpair(insertionSortFrom([i \in DOMAIN s |-> <<key(s[i]), s[i]>>], 2))

(***************************************************************************)
(* JSON decoding of the fields of an option record.                        *)
(***************************************************************************)
NoError == [kind |-> "none"]

\* naNFloat.UnmarshalJSON(b), lines 61-72.  [ok, f].
naNFloatUnmarshalJSON(b) ==
    IF b = "\"NaN\"" THEN [ok |-> TRUE, f |-> NaN]
    ELSE ParseFloat(b)

\* encoding/json storing a token into a plain float64 field whose value is
\* cur: null leaves the field alone, a number is parsed, anything else is
\* an UnmarshalTypeError.  [ok, f].
float64UnmarshalJSON(b, cur) ==
    IF b = "null" THEN [ok |-> TRUE, f |-> cur]
    ELSE IF b \in DOMAIN NumberTokens THEN ParseFloat(b)
    ELSE [ok |-> FALSE, f |-> cur]

\* The float fields of the raw struct of OptionData.UnmarshalJSON that the
\* model keeps, by JSON name: those declared naNFloat and those declared
\* float64 (lines 125-173).
naNFloatFields == {"volatility", "delta", "gamma", "theta", "vega", "rho",
                   "theoreticalOptionValue"}
float64Fields == {"strikePrice", "timeValue", "openInterest", "theoreticalVolatility"}

\* json.Unmarshal of one member of an option record into its raw field; a
\* member that is absent leaves the field at its zero value.
rawField(obj, name) ==
    IF name \notin DOMAIN obj THEN [ok |-> TRUE, f |-> Float(0)]
    ELSE IF name \in naNFloatFields THEN naNFloatUnmarshalJSON(obj[name])
    ELSE float64UnmarshalJSON(obj[name], Float(0))

zeroOptionData ==
    [Symbol |-> "", StrikePrice |-> Float(0), Volatility |-> Float(0), Delta |-> Float(0),
     Gamma |-> Float(0), Theta |-> Float(0), Vega |-> Float(0), Rho |-> Float(0),
     TimeValue |-> Float(0), OpenInterest |-> Float(0),
     TheoreticalOptionValue |-> Float(0), TheoreticalVolatility |-> Float(0)]

\* OptionData.UnmarshalJSON(b) on target o, lines 124-221: decode into the
\* raw struct, return the error if any member fails, else copy field by
\* field.  [ok, o].
OptionDataUnmarshalJSON(o, obj) ==
    IF \E name \in naNFloatFields \cup float64Fields : ~rawField(obj, name).ok
    THEN [ok |-> FALSE, o |-> o]
    ELSE [ok |-> TRUE,
          o |-> [Symbol |-> IF "symbol" \in DOMAIN obj THEN obj["symbol"] ELSE "",
                 StrikePrice |-> rawField(obj, "strikePrice").f,
                 Volatility |-> rawField(obj, "volatility").f,
                 Delta |-> rawField(obj, "delta").f,
                 Gamma |-> rawField(obj, "gamma").f,
                 Theta |-> rawField(obj, "theta").f,
                 Vega |-> rawField(obj, "vega").f,
                 Rho |-> rawField(obj, "rho").f,
                 TimeValue |-> rawField(obj, "timeValue").f,
                 OpenInterest |-> rawField(obj, "openInterest").f,
                 TheoreticalOptionValue |-> rawField(obj, "theoreticalOptionValue").f,
                 TheoreticalVolatility |-> rawField(obj, "theoreticalVolatility").f]]

(***************************************************************************)
(* The query validator.                                                    *)
(***************************************************************************)
\* contains(s, list): membership of s in the list.
contains(s, list) == \E i \in DOMAIN list : list[i] = s

\* A validator that forgets the defaults.
defaulted_Never(value, default) == value

\* The else branches of validate (lines 446-448, 454-456, 462-464, 470-472):
\* a field that is empty takes its default.
defaulted(value, default) == IF value # "" THEN value ELSE default

validationError(field, allowed) == [kind |-> "validation", field |-> field, allowed |-> allowed]

\* OptionChainOptions.validate, lines 441-475, on the object o: each
\* enumerated field in turn is checked if non-empty, defaulted if empty;
\* the first bad value returns.  [opts, err].
validate(o) ==
    IF o.ContractType # "" /\ ~contains(o.ContractType, validContractTypes)
    THEN [opts |-> o, err |-> validationError("contractType", validContractTypes)]
    ELSE LET o1 == [o EXCEPT !.ContractType = defaulted(o.ContractType, defaultContractType)]
    IN
    IF o1.Strategy # "" /\ ~contains(o1.Strategy, validStrategies)
    THEN [opts |-> o1, err |-> validationError("strategy", validStrategies)]
    ELSE LET o2 == [o1 EXCEPT !.Strategy = defaulted(o1.Strategy, defaultStrategy)]
    IN
    IF o2.ExpMonth # "" /\ ~contains(o2.ExpMonth, validExpMonths)
    THEN [opts |-> o2, err |-> validationError("expMonth", validExpMonths)]
    ELSE LET o3 == [o2 EXCEPT !.ExpMonth = defaulted(o2.ExpMonth, defaultExpMonth)]
    IN
    IF o3.OptionType # "" /\ ~contains(o3.OptionType, validOptionTypes)
    THEN [opts |-> o3, err |-> validationError("optionType", validOptionTypes)]
    ELSE [opts |-> [o3 EXCEPT !.OptionType = defaulted(o3.OptionType, defaultOptionType)],
          err |-> NoError]

(***************************************************************************)
(* The chain normaliser.                                                   *)
(***************************************************************************)
zeroOptionChain ==
    [Symbol |-> "", Status |-> "", Interval |-> Float(0), Calls |-> <<>>, Puts |-> <<>>]

\* One element of Calls or Puts as make() leaves it (lines 347-356).
zeroGroup == [ExpDate |-> zeroTime, DaysTilExp |-> 0, Strikes |-> <<>>]

\* json.Unmarshal of a callExpDateMap / putExpDateMap member into
\* map[string]map[string][]OptionData (lines 308-309): every record of
\* every wrapped list goes through OptionData.UnmarshalJSON.
rawExpDateMapOk(m) ==
    \A k \in DOMAIN m : \A s \in DOMAIN m[k] : \A i \in DOMAIN m[k][s] :
        OptionDataUnmarshalJSON(zeroOptionData, m[k][s][i]).ok

rawExpDateMap(m) ==
    [k \in DOMAIN m |->
        [s \in DOMAIN m[k] |->
            [i \in DOMAIN m[k][s] |-> OptionDataUnmarshalJSON(zeroOptionData, m[k][s][i]).o]]]

\* sort.Slice(strikes, ...) by StrikePrice, lines 373-375 and 397-399.
StrikePriceOf(o) == o.StrikePrice

\* A decoder that leaves the strikes in the order of the range.
sortStrikes_Skipped(strikes) == strikes

sortStrikes(strikes) == sortSlice(strikes, StrikePriceOf)

\* sort.Slice(c.Calls, ...) and sort.Slice(c.Puts, ...) by DaysTilExp,
\* lines 379-381 and 403-405.
DaysTilExpOf(g) == Float(g.DaysTilExp)

\* A decoder that leaves the groups in the order of the range.
sortGroups_Skipped(groups) == groups

sortGroups(groups) == sortSlice(groups, DaysTilExpOf)

\* The loop over one raw map, lines 359-378 and 383-402, from its i-th
\* iteration on: order is the order in which the range visits the keys and
\* strikeOrder[k] the order in which the inner range visits the strikes of
\* key k.  An index out of range is a run-time panic.
\* [groups, outcome, err].
RECURSIVE rangeExpDateMap(_, _, _, _, _)

\* strikes[j] = optionData[0] for each strike entry, lines 367-372.
unwrapStrikes(v, visit) == [j \in DOMAIN visit |-> v[visit[j]][1]]

\* The iteration from the result of strconv.Atoi on, lines 364-377.
rangeFromDays(groups, i, m, order, strikeOrder, days) ==
    IF ~days.ok
    THEN [groups |-> [groups EXCEPT ![i].DaysTilExp = days.v], outcome |-> "error",
          err |-> [kind |-> "strconv.Atoi", value |-> order[i]]]
    ELSE IF \E s \in DOMAIN m[order[i]] : Len(m[order[i]][s]) = 0
    THEN [groups |-> [groups EXCEPT ![i].DaysTilExp = days.v], outcome |-> "panic",
          err |-> [kind |-> "index out of range", value |-> order[i]]]
    ELSE rangeExpDateMap(
            [groups EXCEPT ![i].DaysTilExp = days.v,
                           ![i].Strikes = sortStrikes(
                                unwrapStrikes(m[order[i]], strikeOrder[order[i]]))],
            i + 1, m, order, strikeOrder)

\* The iteration from the result of time.Parse on, lines 361-377.
rangeFromDate(groups, i, m, order, strikeOrder, dateParts, date) ==
    IF ~date.ok
    THEN [groups |-> [groups EXCEPT ![i].ExpDate = date.t], outcome |-> "error",
          err |-> [kind |-> "time.Parse", value |-> order[i]]]
    ELSE IF Len(dateParts) < 2
    THEN [groups |-> [groups EXCEPT ![i].ExpDate = date.t], outcome |-> "panic",
          err |-> [kind |-> "index out of range", value |-> order[i]]]
    ELSE rangeFromDays([groups EXCEPT ![i].ExpDate = date.t], i, m, order, strikeOrder,
                       Atoi(dateParts[2]))

\* The iteration from the result of strings.Split on, lines 360-377.
rangeFromSplit(groups, i, m, order, strikeOrder, dateParts) ==
    rangeFromDate(groups, i, m, order, strikeOrder, dateParts, timeParse(dateParts[1]))

rangeExpDateMap(groups, i, m, order, strikeOrder) ==
    IF i > Len(order) THEN [groups |-> groups, outcome |-> "ok", err |-> NoError]
    ELSE rangeFromSplit(groups, i, m, order, strikeOrder, Split(order[i], ":"))

\* The end of UnmarshalJSON from the result of the loop over the puts on,
\* lines 383-406.
afterPuts(c, puts) ==
    IF puts.outcome # "ok"
    THEN [c |-> [c EXCEPT !.Puts = puts.groups], outcome |-> puts.outcome, err |-> puts.err]
    ELSE [c |-> [c EXCEPT !.Puts = sortGroups(puts.groups)], outcome |-> "ok",
          err |-> NoError]

\* UnmarshalJSON from the result of the loop over the calls on, lines
\* 359-406.
afterCalls(c, calls, rawPuts, iter) ==
    IF calls.outcome # "ok"
    THEN [c |-> [c EXCEPT !.Calls = calls.groups], outcome |-> calls.outcome,
          err |-> calls.err]
    ELSE afterPuts([c EXCEPT !.Calls = sortGroups(calls.groups)],
                   rangeExpDateMap(c.Puts, 1, rawPuts, iter.puts, iter.putStrikes))

\* The target after the copy of the scalars and the two make() calls,
\* lines 314-356.
copyRaw(body, interval, rawCalls, rawPuts) ==
    [Symbol |-> body.symbol, Status |-> body.status, Interval |-> interval,
     Calls |-> [i \in 1..Cardinality(DOMAIN rawCalls) |-> zeroGroup],
     Puts |-> [i \in 1..Cardinality(DOMAIN rawPuts) |-> zeroGroup]]

\* UnmarshalJSON after json.Unmarshal has filled the raw struct, lines
\* 314-406.
normalise(c1, rawCalls, rawPuts, iter) ==
    afterCalls(c1, rangeExpDateMap(c1.Calls, 1, rawCalls, iter.calls, iter.callStrikes),
               rawPuts, iter)

\* json.Unmarshal(b, &raw), line 311: whether every member decodes.
rawOk(body) ==
    /\ float64UnmarshalJSON(body.interval, Float(0)).ok
    /\ rawExpDateMapOk(body.callExpDateMap)
    /\ rawExpDateMapOk(body.putExpDateMap)

\* OptionChain.UnmarshalJSON(b) on target c, lines 271-407.  iter holds the
\* orders the four ranges take.  [c, outcome, err]: outcome is "ok" (nil
\* returned), "error" or "panic"; c is the target as the call leaves it.
OptionChainUnmarshalJSON(c, body, iter) ==
    IF ~rawOk(body)
    THEN [c |-> c, outcome |-> "error", err |-> [kind |-> "json", value |-> <<>>]]
    ELSE normalise(copyRaw(body, float64UnmarshalJSON(body.interval, Float(0)).f,
                           rawExpDateMap(body.callExpDateMap),
                           rawExpDateMap(body.putExpDateMap)),
                   rawExpDateMap(body.callExpDateMap), rawExpDateMap(body.putExpDateMap),
                   iter)

\* The orders the runtime may choose for the ranges over one map: an order
\* of its keys and, for each key, an order of that key's strikes.
RECURSIVE StrikeOrdersOver(_, _)
StrikeOrdersOver(m, K) ==
    IF K = {} THEN {<<>>}
    ELSE {f @@ (k :> p) : f \in StrikeOrdersOver(m, K \ {CHOOSE x \in K : TRUE}),
                          k \in {CHOOSE x \in K : TRUE},
                          p \in Perms(DOMAIN m[CHOOSE x \in K : TRUE])}

StrikeOrders(m) == StrikeOrdersOver(m, DOMAIN m)

IterOrders(body) ==
    [calls : Perms(DOMAIN body.callExpDateMap),
     callStrikes : StrikeOrders(body.callExpDateMap),
     puts : Perms(DOMAIN body.putExpDateMap),
     putStrikes : StrikeOrders(body.putExpDateMap)]

(***************************************************************************)
(* The service.                                                            *)
(***************************************************************************)
NilOptions == [isNil |-> TRUE]
NilChain == [isNil |-> TRUE]
NilResponse == [isNil |-> TRUE]

\* query.Values(opts) for the url tags of lines 42-56: one parameter per
\* field that is not empty (omitempty).
queryValues(o) ==
    LET all == [contractType |-> o.ContractType,
                strikeCount |-> IF o.StrikeCount = 0 THEN "" ELSE ToString(o.StrikeCount),
                strategy |-> o.Strategy,
                range |-> o.Range,
                expMonth |-> o.ExpMonth,
                optionType |-> o.OptionType]
    IN  [name \in {n \in DOMAIN all : all[n] # ""} |-> all[name]]

\* Client.NewRequest(method, u, nil): the request for u, or an error when
\* the client cannot build it.  net is what the client and the server do
\* in this call.
NewRequest(method, u, net) ==
    IF net.request = "fail"
    THEN [ok |-> FALSE, req |-> [method |-> method, path |-> u.path, query |-> u.query],
          err |-> [kind |-> "request", value |-> u.path]]
    ELSE [ok |-> TRUE, req |-> [method |-> method, path |-> u.path, query |-> u.query],
          err |-> NoError]

\* Client.Do(ctx, req, v): send the request; a transport failure returns
\* no response and the error; otherwise the body is decoded into v with
\* v's UnmarshalJSON and the response is returned with the decode error.
\* [resp, err, v, outcome].
doDecoded(decoded) ==
    [resp |-> [isNil |-> FALSE], err |-> decoded.err, v |-> decoded.c,
     outcome |-> IF decoded.outcome = "panic" THEN "panic" ELSE "return"]

Do(req, v, net, iter) ==
    IF net.transport = "fail"
    THEN [resp |-> NilResponse, err |-> [kind |-> "transport", value |-> req.path],
          v |-> v, outcome |-> "return"]
    ELSE doDecoded(OptionChainUnmarshalJSON(v, net.body, iter))

\* The value returned when the status is not SUCCESS, lines 435-437.
\* A service that returns no chain beside the status error.
statusReturn_DropsChain(optionChain, resp) ==
    [chain |-> NilChain, resp |-> resp,
     err |-> [kind |-> "status", value |-> optionChain.Status]]

statusReturn(optionChain, resp) ==
    [chain |-> [isNil |-> FALSE, v |-> optionChain], resp |-> resp,
     err |-> [kind |-> "status", value |-> optionChain.Status]]

\* The url of the request, lines 412-423.
requestURL(symbol, o) ==
    IF o.isNil THEN [path |-> "marketdata/chains", query |-> [name \in {} |-> ""]]
    ELSE [path |-> "marketdata/chains", query |-> queryValues(o) @@ ("symbol" :> symbol)]

\* What a call returns: the three values (or a panic), the options object
\* as the call leaves it and the requests the call handed to the transport.
Returned(chain_, resp, err, o, requests) ==
    [outcome |-> "return", chain |-> chain_, resp |-> resp, err |-> err, opts |-> o,
     sent |-> requests]

\* A call that has entered s.client.Do(ctx, req, optionChain), line 431, and
\* waits there for the network: the options object as validate left it and
\* the request in the hands of the transport.
Blocked(o, req) == [outcome |-> "do", opts |-> o, sent |-> <<req>>]

\* OptionChain from the result of client.Do on, lines 431-438.
afterDo(o, req, done) ==
    IF done.outcome = "panic"
    THEN [Returned(NilChain, NilResponse, done.err, o, <<req>>) EXCEPT !.outcome = "panic"]
    ELSE IF done.err.kind # "none"
    THEN Returned(NilChain, done.resp, done.err, o, <<req>>)
    ELSE IF done.v.Status # "SUCCESS"
    THEN Returned(statusReturn(done.v, done.resp).chain, statusReturn(done.v, done.resp).resp,
                  statusReturn(done.v, done.resp).err, o, <<req>>)
    ELSE Returned([isNil |-> FALSE, v |-> done.v], done.resp, NoError, o, <<req>>)

\* OptionChain from the result of client.NewRequest to the call of
\* client.Do, lines 425-431.
afterNewRequest(o, req) ==
    IF ~req.ok THEN Returned(NilChain, NilResponse, req.err, o, <<>>)
    ELSE Blocked(o, req.req)

\* OptionChain from the result of opts.validate to the call of client.Do,
\* lines 414-431.
afterValidate(symbol, validated, net) ==
    IF validated.err.kind # "none"
    THEN Returned(NilChain, NilResponse, validated.err, validated.opts, <<>>)
    ELSE afterNewRequest(validated.opts,
                         NewRequest("GET", requestURL(symbol, validated.opts), net))

\* OptionChainService.OptionChain(ctx, symbol, opts) up to the point where
\* it returns early or blocks in client.Do, lines 411-431.
OptionChain(symbol, o, net) ==
    afterValidate(symbol, IF o.isNil THEN [opts |-> o, err |-> NoError] ELSE validate(o),
                  net)

(***************************************************************************)
(* The inputs of the model.                                                *)
(***************************************************************************)
\* "2024-01-19:5"
Key_2024_01_19_5 ==
    <<"2", "0", "2", "4", "-", "0", "1", "-", "1", "9", ":", "5">>
\* "2024-03-15:10"
Key_2024_03_15_10 ==
    <<"2", "0", "2", "4", "-", "0", "3", "-", "1", "5", ":", "1", "0">>
\* "2024-06-21:5"
Key_2024_06_21_5 ==
    <<"2", "0", "2", "4", "-", "0", "6", "-", "2", "1", ":", "5">>
\* "2024-01-19"
Key_NoSeparator ==
    <<"2", "0", "2", "4", "-", "0", "1", "-", "1", "9">>
\* "2024-01-19:5:7"
Key_TwoSeparators ==
    <<"2", "0", "2", "4", "-", "0", "1", "-", "1", "9", ":", "5", ":", "7">>
\* "2024-01-19:-5"
Key_NegativeDays ==
    <<"2", "0", "2", "4", "-", "0", "1", "-", "1", "9", ":", "-", "5">>
\* "2024-13-01:5"
Key_BadMonth ==
    <<"2", "0", "2", "4", "-", "1", "3", "-", "0", "1", ":", "5">>
\* "2024-01-19:x"
Key_BadDays ==
    <<"2", "0", "2", "4", "-", "0", "1", "-", "1", "9", ":", "x">>
\* "soon"
Key_NoDate ==
    <<"s", "o", "o", "n">>

GoodKeys == {Key_2024_01_19_5, Key_2024_03_15_10, Key_2024_06_21_5}

KeySamples ==
    GoodKeys \cup {Key_NoSeparator, Key_TwoSeparators, Key_NegativeDays, Key_BadMonth,
                   Key_BadDays, Key_NoDate}

\* Strike keys; "100" and "100.0" are two strikes with one strike price.
StrikeSamples == {"100.0", "90.0", "95.0", "100"}

\* The option record the server lists first under strike s, and the one it
\* lists after it when the wrapped list is longer.
Contract(s) ==
    [symbol |-> "AAPL_C" \o s, strikePrice |-> s, delta |-> "\"NaN\"", gamma |-> "0.5",
     timeValue |-> "-0.25"]

ExtraContract(s) == [symbol |-> "EXTRA_" \o s, strikePrice |-> s, delta |-> "0.5"]

\* A record whose timeValue is not a number.
BadContract(s) == [symbol |-> "BAD_" \o s, strikePrice |-> s, timeValue |-> "\"NaN\""]

WrappedList(s, n) == [i \in 1..n |-> IF i = 1 THEN Contract(s) ELSE ExtraContract(s)]

StrikeSets == {S \in SUBSET StrikeSamples : Cardinality(S) <= MaxStrikes}

\* Strike maps: every list of one record; or one list of another length;
\* or one record that does not decode.
StrikeMaps ==
    {[s \in S |-> WrappedList(s, 1)] : S \in StrikeSets}
    \cup {[s \in S |-> IF s = t THEN WrappedList(s, n) ELSE WrappedList(s, 1)] :
            <<S, t, n>> \in {x \in StrikeSets \X StrikeSamples \X ((0..MaxList) \ {1}) :
                                x[2] \in x[1]}}
    \cup {[s \in S |-> IF s = t THEN <<BadContract(s)>> ELSE WrappedList(s, 1)] :
            <<S, t>> \in {x \in StrikeSets \X StrikeSamples : x[2] \in x[1]}}

PlainStrikeMap == [s \in {"90.0"} |-> WrappedList(s, 1)]

KeySets(keys) == {K \in SUBSET keys : Cardinality(K) <= MaxKeys}

\* Expiration maps that vary the composite keys.
KeyVariety == {[k \in K |-> PlainStrikeMap] : K \in KeySets(KeySamples)}

\* Expiration maps that vary the strikes under one well-formed key.
StrikeVariety ==
    {[k \in K |-> IF k = f THEN sm ELSE PlainStrikeMap] :
        <<K, f, sm>> \in {x \in KeySets(GoodKeys) \X GoodKeys \X StrikeMaps : x[2] \in x[1]}}

RichMaps == KeyVariety \cup StrikeVariety

SmallMaps ==
    {<<>>,
     [k \in {Key_2024_01_19_5} |-> PlainStrikeMap],
     [k \in {Key_BadDays} |-> PlainStrikeMap],
     [k \in {Key_NoSeparator} |-> PlainStrikeMap],
     [k \in {Key_2024_03_15_10} |-> [s \in {"95.0"} |-> WrappedList(s, 0)]]}

Body(status, interval, calls, puts) ==
    [symbol |-> "AAPL", status |-> status, interval |-> interval,
     callExpDateMap |-> calls, putExpDateMap |-> puts]

\* Response bodies for the service: small maps, any status and interval.
FetchBodies ==
    {Body(st, iv, c, p) : st \in {"SUCCESS", "FAILED", ""}, iv \in {"0", "\"abc\""},
                          c \in SmallMaps, p \in SmallMaps}

\* Response bodies for the decoder: those, and one rich map beside no map or
\* beside a one-key map.
Bodies ==
    FetchBodies
    \cup {Body("SUCCESS", "0.5", c, <<>>) : c \in RichMaps}
    \cup {Body("SUCCESS", "0.5", [k \in {Key_2024_01_19_5} |-> PlainStrikeMap], p) :
            p \in RichMaps}

\* Scalar tokens tried on each float field of an option record.
TokenSamples == {"0.5", "-0.25", "1e2", "null", "\"NaN\"", "\"abc\"", "\"0.5\""}

\* Option records: the record of strike 90.0 with float member name set to
\* token tok.
OptionObject(name, tok) ==
    [n \in DOMAIN Contract("90.0") \cup {name} |->
        IF n = name THEN tok ELSE Contract("90.0")[n]]

\* Query objects.
OptionsSamples ==
    [isNil : {FALSE},
     ContractType : {"", "CALL", "ALL", "BOGUS"},
     Strategy : {"", "SINGLE", "VERTICAL", "BOGUS"},
     ExpMonth : {"", "JAN", "BOGUS"},
     OptionType : {"", "NS", "BOGUS"},
     Range : {"", "ITM", "BOGUS"},
     StrikeCount : {0, 5}]

FetchOptions ==
    {NilOptions} \cup
    {o \in OptionsSamples : /\ o.ContractType \in {"", "CALL"}
                            /\ o.Strategy \in {"", "VERTICAL", "BOGUS"}
                            /\ o.ExpMonth = ""
                            /\ o.OptionType \in {"", "BOGUS"}
                            /\ o.Range = "ITM"
                            /\ o.StrikeCount \in {0, 5}}

SymbolSamples == {"AAPL", "MSFT"}

\* No answer yet.
NoBody == Body("", "0", <<>>, <<>>)

\* What the client does when the call asks it for a request: it builds the
\* request or fails.  The transport has not acted yet.
RequestSamples ==
    {[request |-> "fail", transport |-> "pending", body |-> NoBody],
     [request |-> "ok", transport |-> "pending", body |-> NoBody]}

\* What the transport does with a request in flight: it fails, or the
\* server answers with a body.
NetSamples ==
    {[request |-> "ok", transport |-> "fail", body |-> NoBody]}
    \cup {[request |-> "ok", transport |-> "respond", body |-> b] : b \in FetchBodies}

\* The outcomes of a request in flight under context ctx: a cancelled
\* context makes client.Do return its error.
Answers(ctx) == {n \in NetSamples : ctx = "cancelled" => n.transport = "fail"}

(***************************************************************************)
(* The state machine: a caller holding an options object and a target      *)
(* chain makes one call.  args records the call and what it was given, ret *)
(* what it returned.  The decoders and validate run to completion in one   *)
(* step; OptionChain takes one step to the call of client.Do, stays there  *)
(* while the request is in flight (pc = "do"), where the context can be    *)
(* cancelled, and takes a second step when client.Do returns.              *)
(***************************************************************************)
Init ==
    /\ pc = "idle"
    /\ args = [op |-> "none"]
    /\ ret = [outcome |-> "none"]
    /\ opts = NilOptions
    /\ chain = zeroOptionChain
    /\ sent = <<>>

\* A caller validates a query object.
Validate ==
    /\ pc = "idle"
    /\ \E o \in OptionsSamples : \E r \in {validate(o)} :
        /\ args' = [op |-> "validate", opts |-> o]
        /\ opts' = r.opts
        /\ ret' = [outcome |-> "return", err |-> r.err]
    /\ pc' = "validate"
    /\ UNCHANGED <<chain, sent>>

\* encoding/json hands a token to a naNFloat.
DecodeNaNFloat ==
    /\ pc = "idle"
    /\ \E b \in TokenSamples : \E r \in {naNFloatUnmarshalJSON(b)} :
        /\ args' = [op |-> "naNFloat", b |-> b]
        /\ ret' = [outcome |-> IF r.ok THEN "ok" ELSE "error", f |-> r.f]
    /\ pc' = "naNFloat"
    /\ UNCHANGED <<opts, chain, sent>>

\* A caller decodes one option record.
DecodeOptionData ==
    /\ pc = "idle"
    /\ \E name \in naNFloatFields \cup float64Fields, tok \in TokenSamples :
        \E r \in {OptionDataUnmarshalJSON(zeroOptionData, OptionObject(name, tok))} :
            /\ args' = [op |-> "OptionData", obj |-> OptionObject(name, tok),
                        name |-> name, tok |-> tok]
            /\ ret' = [outcome |-> IF r.ok THEN "ok" ELSE "error", o |-> r.o]
    /\ pc' = "OptionData"
    /\ UNCHANGED <<opts, chain, sent>>

\* A caller decodes a response body into its target chain.
DecodeOptionChain ==
    /\ pc = "idle"
    /\ \E body \in Bodies : \E iter \in IterOrders(body) :
        \E r \in {OptionChainUnmarshalJSON(chain, body, iter)} :
            /\ args' = [op |-> "OptionChain", body |-> body, before |-> chain]
            /\ chain' = r.c
            /\ ret' = [outcome |-> r.outcome, err |-> r.err]
    /\ pc' = "OptionChain"
    /\ UNCHANGED <<opts, sent>>

\* A caller fetches the option chain of a symbol: validate defaults the
\* options object in place, the request is built and handed to client.Do
\* (lines 411-431).  The call returns here when validation or the building
\* of the request fails; otherwise it blocks with the request in flight.
FetchCall ==
    /\ pc = "idle"
    /\ \E symbol \in SymbolSamples, o \in FetchOptions, net \in RequestSamples :
        \E r \in {OptionChain(symbol, o, net)} :
            /\ args' = [op |-> "fetch", symbol |-> symbol, opts |-> o, net |-> net,
                        ctx |-> "live"]
            /\ opts' = r.opts
            /\ sent' = sent \o r.sent
            /\ pc' = IF r.outcome = "do" THEN "do" ELSE "fetch"
            /\ ret' = IF r.outcome = "do" THEN [outcome |-> "none"]
                       ELSE [outcome |-> r.outcome, chain |-> r.chain, resp |-> r.resp,
                             err |-> r.err]
    /\ UNCHANGED chain

\* The caller cancels ctx while the request is in flight.
Cancel ==
    /\ pc = "do"
    /\ args.ctx = "live"
    /\ args' = [args EXCEPT !.ctx = "cancelled"]
    /\ UNCHANGED <<pc, ret, opts, chain, sent>>

\* client.Do returns and the call finishes (lines 431-438): the transport
\* failed, or the body was decoded into a fresh chain; then the status
\* check and the return.
FetchReturn ==
    /\ pc = "do"
    /\ \E net \in Answers(args.ctx) : \E iter \in IterOrders(net.body) :
        \E r \in {afterDo(opts, sent[Len(sent)],
                          Do(sent[Len(sent)], zeroOptionChain, net, iter))} :
            /\ args' = [args EXCEPT !.net = net]
            /\ ret' = [outcome |-> r.outcome, chain |-> r.chain, resp |-> r.resp,
                       err |-> r.err]
    /\ pc' = "fetch"
    /\ UNCHANGED <<opts, chain, sent>>

Next ==
    \/ Validate
    \/ DecodeNaNFloat
    \/ DecodeOptionData
    \/ DecodeOptionChain
    \/ FetchCall
    \/ Cancel
    \/ FetchReturn

Spec == Init /\ [][Next]_vars

(***************************************************************************)
(* Properties.                                                             *)
(***************************************************************************)
Decoded == pc = "OptionChain"
Fetched == pc = "fetch"
\* OptionChain has been called: it has returned or its request is in flight.
Called == pc \in {"do", "fetch"}

ExpDateMaps(body) == {body.callExpDateMap, body.putExpDateMap}

\* Some strike entry of map m wraps a list of 0 or of 2 or more records.
HasWrongList(m) == \E k \in DOMAIN m : \E s \in DOMAIN m[k] : Len(m[k][s]) # 1

\* C1: a response in which some strike entry's wrapped list has 0 or 2+
\* records makes UnmarshalJSON return an error: it neither succeeds on
\* element 0 nor panics.
C1_WrongListLengthFails ==
    (Decoded /\ \E m \in ExpDateMaps(args.body) : HasWrongList(m))
        => ret.outcome = "error"

\* C2: a response with a composite key that does not split on ':' into
\* exactly two parts makes UnmarshalJSON return an error: it neither
\* succeeds nor panics.
C2_MalformedKeyFails ==
    (Decoded /\ \E m \in ExpDateMaps(args.body) :
                    \E k \in DOMAIN m : Len(Split(k, ":")) # 2)
        => ret.outcome = "error"

\* The groups are one per key of m, each with its key's date and days, under
\* the pairing p of positions with keys.
GroupsPairedWithKeys(groups, m, p) ==
    \A i \in DOMAIN groups :
        /\ Len(Split(p[i], ":")) >= 2
        /\ groups[i].ExpDate = timeParse(Split(p[i], ":")[1]).t
        /\ groups[i].DaysTilExp = Atoi(Split(p[i], ":")[2]).v

AscendingByDays(groups) ==
    \A i \in 1..(Len(groups) - 1) : groups[i].DaysTilExp <= groups[i + 1].DaysTilExp

OneGroupPerKey(groups, m) ==
    /\ Len(groups) = Cardinality(DOMAIN m)
    /\ \E p \in Perms(DOMAIN m) : GroupsPairedWithKeys(groups, m, p)

\* C3: after a successful UnmarshalJSON, whatever order the ranges took,
\* Calls and Puts hold exactly one group per key of their map, with that
\* key's parsed date and days, in ascending order of DaysTilExp.
C3_GroupsPerKeySortedByDays ==
    (Decoded /\ ret.outcome = "ok") =>
        /\ OneGroupPerKey(chain.Calls, args.body.callExpDateMap)
        /\ OneGroupPerKey(chain.Puts, args.body.putExpDateMap)
        /\ AscendingByDays(chain.Calls)
        /\ AscendingByDays(chain.Puts)

\* The map of the specification's example, decoded into days 5 then 10.
C3_Witness ==
    /\ Decoded
    /\ ret.outcome = "ok"
    /\ DOMAIN args.body.callExpDateMap = {Key_2024_03_15_10, Key_2024_01_19_5}
    /\ Len(chain.Calls) = 2
    /\ chain.Calls[1].DaysTilExp = 5
    /\ chain.Calls[2].DaysTilExp = 10
    /\ chain.Calls[2].ExpDate = [year |-> 2024, month |-> 3, day |-> 15]

\* The record unwrapped from a strike entry: the first record of its list.
Unwrapped(list) == OptionDataUnmarshalJSON(zeroOptionData, list[1]).o

\* strikes holds the record unwrapped from each strike entry of v, each
\* once.
PermutationOfEntries(strikes, v) ==
    /\ Len(strikes) = Cardinality(DOMAIN v)
    /\ \E q \in Perms(DOMAIN v) : \A j \in DOMAIN strikes : strikes[j] = Unwrapped(v[q[j]])

AscendingByStrikePrice(strikes) ==
    \A j \in 1..(Len(strikes) - 1) :
        /\ ~strikes[j].StrikePrice.nan
        /\ ~strikes[j + 1].StrikePrice.nan
        /\ strikes[j].StrikePrice.v <= strikes[j + 1].StrikePrice.v

StrikesNormalised(groups, m) ==
    /\ Len(groups) = Cardinality(DOMAIN m)
    /\ \E p \in Perms(DOMAIN m) :
        /\ GroupsPairedWithKeys(groups, m, p)
        /\ \A i \in DOMAIN groups : PermutationOfEntries(groups[i].Strikes, m[p[i]])
    /\ \A i \in DOMAIN groups : AscendingByStrikePrice(groups[i].Strikes)

\* C4: after a successful UnmarshalJSON, whatever order the ranges took,
\* the Strikes of every group hold the record unwrapped from each strike
\* entry of the group's key, each exactly once, in ascending order of
\* StrikePrice.
C4_StrikesPermutationSortedByPrice ==
    (Decoded /\ ret.outcome = "ok") =>
        /\ StrikesNormalised(chain.Calls, args.body.callExpDateMap)
        /\ StrikesNormalised(chain.Puts, args.body.putExpDateMap)

\* The strikes of the specification's example, decoded into 90, 95, 100.
C4_Witness ==
    /\ Decoded
    /\ ret.outcome = "ok"
    /\ Len(chain.Puts) = 1
    /\ DOMAIN args.body.putExpDateMap = {Key_2024_03_15_10}
    /\ DOMAIN args.body.putExpDateMap[Key_2024_03_15_10] = {"100.0", "90.0", "95.0"}
    /\ Len(chain.Puts[1].Strikes) = 3
    /\ chain.Puts[1].Strikes[1].StrikePrice = Float(9000)
    /\ chain.Puts[1].Strikes[2].StrikePrice = Float(9500)
    /\ chain.Puts[1].Strikes[3].StrikePrice = Float(10000)
    /\ chain.Puts[1].Strikes[3].Symbol = "AAPL_C100.0"

\* The query of the call passes validation (no query passes).
ValidationSucceeds == args.opts.isNil \/ validate(args.opts).err.kind = "none"

\* The call reaches the server and the server answers.
TransportSucceeds ==
    ValidationSucceeds /\ args.net.request = "ok" /\ args.net.transport = "respond"

\* The body of the answer decodes without an error.
DecodeSucceeds ==
    \E iter \in IterOrders(args.net.body) :
        OptionChainUnmarshalJSON(zeroOptionChain, args.net.body, iter).outcome = "ok"

\* C5: when the transport succeeds and the body decodes cleanly but its
\* status is not SUCCESS, OptionChain returns an error carrying the status
\* together with the decoded chain and the response; and it returns a nil
\* error exactly when validation, transport and decode succeed and the
\* status is SUCCESS.
C5_StatusErrorAndNilError ==
    (Fetched /\ ret.outcome = "return") =>
        /\ (TransportSucceeds /\ DecodeSucceeds /\ args.net.body.status # "SUCCESS") =>
            /\ ret.err.kind = "status"
            /\ ret.err.value = args.net.body.status
            /\ ~ret.chain.isNil
            /\ ret.chain.v.Status = args.net.body.status
            /\ ret.chain.v.Symbol = args.net.body.symbol
            /\ ~ret.resp.isNil
        /\ ret.err.kind = "none" <=>
            (TransportSucceeds /\ DecodeSucceeds /\ args.net.body.status = "SUCCESS")

\* A FAILED answer with a one-key call map, returned with its chain.
C5_Witness ==
    /\ Fetched
    /\ ret.outcome = "return"
    /\ ~args.opts.isNil
    /\ args.net.body.status = "FAILED"
    /\ ret.err.kind = "status"
    /\ ret.err.value = "FAILED"
    /\ ~ret.chain.isNil
    /\ Len(ret.chain.v.Calls) = 1
    /\ ~ret.resp.isNil

\* The enumerated fields of the query in the order validate examines them.
EnumFields ==
    <<[field |-> "ContractType", name |-> "contractType", allowed |-> validContractTypes,
       default |-> defaultContractType],
      [field |-> "Strategy", name |-> "strategy", allowed |-> validStrategies,
       default |-> defaultStrategy],
      [field |-> "ExpMonth", name |-> "expMonth", allowed |-> validExpMonths,
       default |-> defaultExpMonth],
      [field |-> "OptionType", name |-> "optionType", allowed |-> validOptionTypes,
       default |-> defaultOptionType]>>

Supplied(i) == args.opts[EnumFields[i].field]
Left(i) == opts[EnumFields[i].field]
IsBad(i) == Supplied(i) # "" /\ Supplied(i) \notin Range(EnumFields[i].allowed)
NamesField(err, i) ==
    /\ err.kind = "validation"
    /\ err.field = EnumFields[i].name
    /\ err.allowed = EnumFields[i].allowed

OthersUntouched ==
    /\ opts.Range = args.opts.Range
    /\ opts.StrikeCount = args.opts.StrikeCount
    /\ opts.isNil = args.opts.isNil

\* C6 as claimed: each enumerated field by itself is defaulted when empty,
\* reported when outside its set and kept when inside it; nil is returned
\* exactly when no field is outside its set; other fields are untouched.
C6_EachFieldByItself ==
    pc = "validate" =>
        /\ \A i \in DOMAIN EnumFields :
            /\ Supplied(i) = "" => Left(i) = EnumFields[i].default
            /\ IsBad(i) => NamesField(ret.err, i)
            /\ (Supplied(i) # "" /\ ~IsBad(i)) => Left(i) = Supplied(i)
        /\ ret.err.kind = "none" <=> \A i \in DOMAIN EnumFields : ~IsBad(i)
        /\ OthersUntouched

\* The first field outside its set, or one past the last field.
FirstBad ==
    IF \E i \in DOMAIN EnumFields : IsBad(i)
    THEN CHOOSE i \in DOMAIN EnumFields : IsBad(i) /\ \A j \in 1..(i - 1) : ~IsBad(j)
    ELSE Len(EnumFields) + 1

\* C6 amended: validate examines ContractType, Strategy, ExpMonth and
\* OptionType in that order and returns at the first non-empty value outside
\* its set, with an error naming that field and its allowed set; every
\* field before it (all four when there is none) is defaulted if empty and
\* otherwise unchanged, that field and the fields after it are left as
\* supplied; nil is returned exactly when no field is outside its set; no
\* other field is changed.
C6_ValidateStopsAtFirstBadField ==
    pc = "validate" =>
        /\ \A i \in DOMAIN EnumFields :
            /\ i < FirstBad =>
                Left(i) = IF Supplied(i) = "" THEN EnumFields[i].default ELSE Supplied(i)
            /\ i >= FirstBad => Left(i) = Supplied(i)
            /\ i = FirstBad => NamesField(ret.err, i)
        /\ ret.err.kind = "none" <=> \A i \in DOMAIN EnumFields : ~IsBad(i)
        /\ OthersUntouched

\* An empty strategy defaulted before a bad expMonth is reported, the empty
\* optionType after it left empty.
C6_Witness ==
    /\ pc = "validate"
    /\ args.opts.ContractType = "CALL"
    /\ args.opts.Strategy = ""
    /\ args.opts.ExpMonth = "BOGUS"
    /\ args.opts.OptionType = ""
    /\ opts.ContractType = "CALL"
    /\ opts.Strategy = "SINGLE"
    /\ opts.OptionType = ""
    /\ ret.err.kind = "validation"
    /\ ret.err.field = "expMonth"

\* The error of a failed decode: of the JSON, of a date or of a days value.
DecodeErrorKinds == {"json", "time.Parse", "strconv.Atoi"}

\* C7: a decode that returns an error leaves the target chain as it was
\* before the call, and OptionChain returns no chain with a decode error.
C7_NoPartialChain ==
    /\ (Decoded /\ ret.outcome = "error") => chain = args.before
    /\ (Fetched /\ ret.outcome = "return" /\ ret.err.kind \in DecodeErrorKinds) =>
            ret.chain.isNil

\* The greek and theoretical fields of an option record, by JSON name, with
\* the field of OptionData each is copied to.
GreekFields ==
    [volatility |-> "Volatility", delta |-> "Delta", gamma |-> "Gamma", theta |-> "Theta",
     vega |-> "Vega", rho |-> "Rho", theoreticalOptionValue |-> "TheoreticalOptionValue",
     theoreticalVolatility |-> "TheoreticalVolatility"]

\* C8: for every greek or theoretical field, OptionData.UnmarshalJSON stores
\* NaN for the token "NaN", stores the number of a number token and fails
\* on any other string; for any other float field it fails on "NaN".
C8_SentinelOnEveryGreekField ==
    pc = "OptionData" =>
        /\ (args.name \in DOMAIN GreekFields /\ args.tok = "\"NaN\"") =>
            (ret.outcome = "ok" /\ ret.o[GreekFields[args.name]].nan)
        /\ (args.name \in DOMAIN GreekFields /\ args.tok \in DOMAIN NumberTokens) =>
            (ret.outcome = "ok" /\ ret.o[GreekFields[args.name]] = Float(NumberTokens[args.tok]))
        /\ (args.name \in DOMAIN GreekFields /\ args.tok \in {"\"abc\"", "\"0.5\""}) =>
            ret.outcome = "error"
        /\ (args.name \notin DOMAIN GreekFields /\ args.tok = "\"NaN\"") =>
            ret.outcome = "error"

\* Every key of the response has two parts and every wrapped list one
\* record.
WellShaped(body) ==
    \A m \in ExpDateMaps(body) :
        /\ ~HasWrongList(m)
        /\ \A k \in DOMAIN m : Len(Split(k, ":")) = 2

\* C9: in a response of that shape, a key whose days part is negative or
\* not an integer makes UnmarshalJSON return an error, so that every group
\* of a successfully decoded chain has DaysTilExp >= 0.
C9_DaysNonNegative ==
    (Decoded /\ WellShaped(args.body)) =>
        /\ (\E m \in ExpDateMaps(args.body) : \E k \in DOMAIN m :
                \/ ~Atoi(Split(k, ":")[2]).ok
                \/ Atoi(Split(k, ":")[2]).v < 0)
            => ret.outcome = "error"
        /\ ret.outcome = "ok" =>
            /\ \A i \in DOMAIN chain.Calls : chain.Calls[i].DaysTilExp >= 0
            /\ \A i \in DOMAIN chain.Puts : chain.Puts[i].DaysTilExp >= 0

\* C10: every request handed to the transport is a GET of marketdata/chains
\* whose query carries the caller's symbol, with a query object and
\* without one; and a query that fails validation sends no request.
C10_RequestCarriesSymbol ==
    Called =>
        /\ \A i \in DOMAIN sent :
            /\ sent[i].method = "GET"
            /\ sent[i].path = "marketdata/chains"
            /\ "symbol" \in DOMAIN sent[i].query
            /\ sent[i].query["symbol"] = args.symbol
        /\ ~ValidationSucceeds => sent = <<>>
====
